---- MODULE Spec2Model ----
(***************************************************************************)
(* LUAX clinic appointment booking.                                        *)
(*                                                                         *)
(* Two Flask programs live in the repository:                              *)
(*   - the blueprint application: patients/routes.py and admin/routes.py   *)
(*     over the store of database.py (Luax_DB.db);                         *)
(*   - the standalone app.py over its own store (appointments.db).         *)
(* Every request handler is one action.  The variable `last` is the        *)
(* response of the request handled last (which handler ran, how it ended,  *)
(* and the commit / mail events in the order the handler performed them).  *)
(***************************************************************************)
EXTENDS Naturals, Integers, Sequences, FiniteSets, TLC

VARIABLES
    patients,       \* table patients of database.py
    appointments,   \* table appointments of database.py
    nextId,         \* AUTOINCREMENT sequence of appointments (database.py)
    session,        \* the Flask session cookie of each client
    today,          \* datetime.utcnow() as a day number
    inflight,       \* register requests between their SELECTs and their INSERT
    app_appointments, \* table appointments of app.py
    app_nextId,     \* AUTOINCREMENT sequence of app.py's table
    app_session,    \* session["admin_authenticated"] of the app.py client
    last            \* the response to the last request

vars == <<patients, appointments, nextId, session, today, inflight,
          app_appointments, app_nextId, app_session, last>>

portalVars == <<patients, appointments, nextId, session, today, inflight>>
appVars == <<app_appointments, app_nextId, app_session>>

(***************************************************************************)
(* Bounds of the model.                                                    *)
(***************************************************************************)
MaxAppts == 2
MaxAppAppts == 2
MaxDay == 1

(***************************************************************************)
(* Values.                                                                 *)
(***************************************************************************)
NULL == "NULL"
Clients == {"c1"}
NRCs == {"n1", "n2"}
Passwords == {"p1", "p2"}
\* An address is the sequence of its characters.
EmailGood == <<"a", "@", "b", ".", "c">>
EmailBad == <<"d", "@", "e">>
Emails == {EmailGood, EmailBad}
\* A missing address (None) is the empty sequence.
NoEmail == <<>>
\* Day 0 is the day before the first day of the model.
Days == 0..MaxDay
RegSlots == {1, 2}

ADMIN_PASSWORD == "adminpass"
AdminPasswordInputs == {ADMIN_PASSWORD, "wrong"}

\* The list update_status checks new_status against.
ValidStatuses == {"Pending", "Confirmed", "Cancelled", "Completed"}
StatusInputs == ValidStatuses \cup {"Bogus", NULL}

\* The schema of appointments has the contact columns name, email, phone that
\* the INSERT of the patient dashboard names (added by the runtime schema patch).
AppointmentsHasContactColumns == TRUE

(***************************************************************************)
(* utils.py                                                                *)
(***************************************************************************)
WordChars == {"a", "b", "c", "d", "e", "f"}
LocalChars == WordChars \cup {".", "-"}

AllIn(s, lo, hi, S) == \A k \in lo..hi : s[k] \in S

\* re.match(r'^[\w\.-]+@[\w\.-]+\.\w+$', email) is not None
is_valid_email(email) ==
    \E i \in 2..Len(email) : \E j \in (i + 2)..(Len(email) - 1) :
        /\ AllIn(email, 1, i - 1, LocalChars)
        /\ email[i] = "@"
        /\ AllIn(email, i + 1, j - 1, LocalChars)
        /\ email[j] = "."
        /\ AllIn(email, j + 1, Len(email), WordChars)

\* What mail.send does: the transport delivers, or raises.
Transports == {"sent", "raises"}

try_mail_Uncaught(transport) ==
    IF transport = "sent" THEN <<"mail_sent">> ELSE <<"mail_raised">>

\* try: ... mail.send(msg) / except Exception as e: print(...)
\* The event a mail attempt leaves: an exception the except clause catches is
\* logged; one that is not caught would be "mail_raised".
try_mail(transport) ==
    IF transport = "sent" THEN <<"mail_sent">> ELSE <<"mail_failed_logged">>

\* send_email: nothing for an address that is not valid, else the attempt.
send_email(recipient, transport) ==
    IF ~is_valid_email(recipient) THEN <<>> ELSE try_mail(transport)

\* The outcome of a handler that reached its final redirect with `outcome`
\* after the events ev: an exception nobody caught ends the request instead.
Finish(outcome, ev) == IF \E i \in 1..Len(ev) : ev[i] = "mail_raised"
                       THEN "exception" ELSE outcome

(***************************************************************************)
(* werkzeug.security, as an opaque one-way hash with a verify operation.   *)
(***************************************************************************)
generate_password_hash(password) == <<"hash", password>>
check_password_hash_AnyPassword(hash, password) == TRUE

check_password_hash(hash, password) == hash = <<"hash", password>>

(***************************************************************************)
(* Sessions and responses.                                                 *)
(***************************************************************************)
EmptySession ==
    [admin_authenticated |-> FALSE, patient_logged_in |-> FALSE,
     patient_nrc |-> NULL, patient_email |-> NoEmail]

\* id, nrc, email: the appointment id (0: none), the identity and the address
\* the request named.
Response(op, client, outcome, id, nrc, email, ev) ==
    [op |-> op, client |-> client, outcome |-> outcome,
     id |-> id, nrc |-> nrc, email |-> email, confirmed |-> TRUE, ev |-> ev]

\* The response to a register request; confirmed: password and confirmation
\* of the form were the same.
RegisterResponse(op, in, outcome, ev) ==
    [Response(op, NULL, outcome, 0, in.nrc, in.email, ev)
        EXCEPT !.confirmed = (in.password = in.confirm_password)]

Init ==
    /\ patients = {}
    /\ appointments = {}
    /\ nextId = 1
    /\ session = [c \in Clients |-> EmptySession]
    /\ today = 1
    /\ inflight = {}
    /\ app_appointments = {}
    /\ app_nextId = 1
    /\ app_session = FALSE
    /\ last = Response("none", NULL, "none", 0, NULL, NoEmail, <<>>)

(***************************************************************************)
(* SQL comparison: NULL equals nothing, itself included.                   *)
(***************************************************************************)
SqlEq(a, b) == a # NULL /\ b # NULL /\ a = b
SqlEqEmail(a, b) == a # NoEmail /\ b # NoEmail /\ a = b

(***************************************************************************)
(* patients/routes.py: register                                            *)
(***************************************************************************)
RegisterInputs ==
    [nrc : NRCs \cup {NULL}, email : Emails \cup {NoEmail},
     password : Passwords \cup {NULL}, confirm_password : Passwords \cup {NULL},
     name : {"name", NULL}]

RegisterChecks_NoEmailSelect(in, pats) ==
    IF in.password # in.confirm_password THEN "passwords_do_not_match"
    ELSE IF \E p \in pats : SqlEq(p.nrc, in.nrc) THEN "nrc_already_registered"
    ELSE "pass"

\* Lines 37-49: the password comparison and the two existence SELECTs.
\* "pass" when the request goes on to the INSERT.
RegisterChecks(in, pats) ==
    IF in.password # in.confirm_password THEN "passwords_do_not_match"
    ELSE IF \E p \in pats : SqlEq(p.nrc, in.nrc) THEN "nrc_already_registered"
    ELSE IF \E p \in pats : SqlEqEmail(p.email, in.email) THEN "email_already_registered"
    ELSE "pass"

PatientsConstraintsHold_NoKeys(row, name, pats) ==
    name # NULL /\ row.email # NoEmail /\ row.password # NULL

\* The constraints of table patients (database.py): nrc PRIMARY KEY,
\* name NOT NULL, email UNIQUE NOT NULL, password NOT NULL.
PatientsConstraintsHold(row, name, pats) ==
    /\ name # NULL
    /\ row.email # NoEmail
    /\ row.password # NULL
    /\ ~\E p \in pats : SqlEq(p.nrc, row.nrc)
    /\ ~\E p \in pats : SqlEqEmail(p.email, row.email)

\* Lines 51-62: hash, INSERT, commit.  generate_password_hash(None) raises,
\* and a violated constraint raises sqlite3.IntegrityError: neither is caught.
RegisterInsert(in, pats) ==
    LET row == [nrc |-> in.nrc, email |-> in.email,
                password |-> generate_password_hash(in.password)]
    IN  IF in.password = NULL
        THEN [patients |-> pats, outcome |-> "exception", ev |-> <<>>]
        ELSE IF ~PatientsConstraintsHold(row, in.name, pats)
        THEN [patients |-> pats, outcome |-> "exception", ev |-> <<>>]
        ELSE [patients |-> pats \cup {row}, outcome |-> "account_created",
              ev |-> <<"commit">>]

\* A register request handled without another request in between.
register(in) ==
    LET chk == RegisterChecks(in, patients)
        res == RegisterInsert(in, patients)
    IN  /\ IF chk # "pass"
           THEN /\ patients' = patients
                /\ last' = RegisterResponse("register", in, chk, <<>>)
           ELSE /\ patients' = res.patients
                /\ last' = RegisterResponse("register", in, res.outcome, res.ev)
        /\ UNCHANGED <<appointments, nextId, session, today, inflight>>
        /\ UNCHANGED appVars

\* The same request in two steps, for requests served by concurrent threads:
\* the checks (up to line 49) ...
register_check(r, in) ==
    LET chk == RegisterChecks(in, patients)
    IN  /\ ~\E q \in inflight : q.slot = r
        /\ IF chk # "pass"
           THEN /\ inflight' = inflight
                /\ last' = RegisterResponse("register", in, chk, <<>>)
           ELSE /\ inflight' = inflight \cup {[slot |-> r, in |-> in]}
                /\ last' = RegisterResponse("register_checked", in, "pass", <<>>)
        /\ UNCHANGED <<patients, appointments, nextId, session, today>>
        /\ UNCHANGED appVars

\* ... and the INSERT and commit (lines 51-62).
register_insert(r) ==
    \E q \in inflight :
        /\ q.slot = r
        /\ LET res == RegisterInsert(q.in, patients)
           IN  /\ patients' = res.patients
               /\ last' = RegisterResponse("register", q.in, res.outcome, res.ev)
        /\ inflight' = inflight \ {q}
        /\ UNCHANGED <<appointments, nextId, session, today>>
        /\ UNCHANGED appVars

(***************************************************************************)
(* patients/routes.py: login, logout                                       *)
(***************************************************************************)
get_patient_by_email(email) == {p \in patients : SqlEqEmail(p.email, email)}

login(c, email, password) ==
    LET found == get_patient_by_email(email)
    IN  /\ IF found = {}
           THEN /\ session' = session
                /\ last' = Response("login", c, "email_not_found", 0, NULL, email, <<>>)
           ELSE LET patient == CHOOSE p \in found : TRUE
                IN  IF password = NULL
                    THEN /\ session' = session
                         /\ last' = Response("login", c, "exception", 0, NULL, email, <<>>)
                    ELSE IF ~check_password_hash(patient.password, password)
                    THEN /\ session' = session
                         /\ last' = Response("login", c, "incorrect_password", 0, NULL, email, <<>>)
                    ELSE /\ session' = [session EXCEPT ![c] =
                                [@ EXCEPT !.patient_logged_in = TRUE,
                                          !.patient_nrc = patient.nrc,
                                          !.patient_email = patient.email]]
                         /\ last' = Response("login", c, "welcome", 0, NULL, email, <<>>)
        /\ UNCHANGED <<patients, appointments, nextId, today, inflight>>
        /\ UNCHANGED appVars

\* session.clear()
logout(c) ==
    /\ session' = [session EXCEPT ![c] = EmptySession]
    /\ last' = Response("logout", c, "logged_out", 0, NULL, NoEmail, <<>>)
    /\ UNCHANGED <<patients, appointments, nextId, today, inflight>>
    /\ UNCHANGED appVars


(***************************************************************************)
(* patients/routes.py: dashboard (POST books, GET lists), cancel           *)
(***************************************************************************)
NewAppointment_Unlinked(id, nrc, email, date) ==
    [id |-> id, patient_nrc |-> NULL, email |-> email, appointment_date |-> date,
     status |-> "Pending", is_read |-> 0]

\* The row the INSERT of lines 121-128 adds: status given as 'Pending',
\* is_read left to its default 0 (database.py).
NewAppointment(id, nrc, email, date) ==
    [id |-> id, patient_nrc |-> nrc, email |-> email, appointment_date |-> date,
     status |-> "Pending", is_read |-> 0]

\* date < today, on "%Y-%m-%d" strings: the order of the days.
DateInPast(date, now) == date < now

\* A missing date (None) in the input; None < str raises TypeError.
NoDate == -1
DateInputs == Days \cup {NoDate}

dashboard_post(c, date, transport) ==
    LET s == session[c]
        row == NewAppointment(nextId, s.patient_nrc, s.patient_email, date)
    IN  /\ nextId <= MaxAppts
        /\ IF ~s.patient_logged_in
           THEN /\ UNCHANGED <<appointments, nextId>>
                /\ last' = Response("book", c, "please_login", 0, NULL, NoEmail, <<>>)
           ELSE IF date = NoDate \/ ~AppointmentsHasContactColumns
           THEN /\ UNCHANGED <<appointments, nextId>>
                /\ last' = Response("book", c, "exception", 0, s.patient_nrc,
                                    NoEmail, <<>>)
           ELSE IF DateInPast(date, today)
           THEN /\ UNCHANGED <<appointments, nextId>>
                /\ last' = Response("book", c, "date_in_past", 0, s.patient_nrc,
                                    NoEmail, <<>>)
           ELSE /\ appointments' = appointments \cup {row}
                /\ nextId' = nextId + 1
                /\ LET ev == <<"commit">> \o try_mail(transport)
                   IN  last' = Response("book", c, Finish("booked", ev), row.id,
                                        s.patient_nrc, NoEmail, ev)
        /\ UNCHANGED <<patients, session, today, inflight>>
        /\ UNCHANGED appVars

\* Only pending appointments can be cancelled (line 236).
Cancellable(appt) == appt.status = "Pending"

OwnAppointment_AnyPatient(id, nrc) == {a \in appointments : a.id = id}

\* SELECT * FROM appointments WHERE id=? AND patient_nrc=?
OwnAppointment(id, nrc) ==
    {a \in appointments : a.id = id /\ SqlEq(a.patient_nrc, nrc)}

SetStatus(appts, id, status) ==
    {IF a.id = id THEN [a EXCEPT !.status = status] ELSE a : a \in appts}

cancel_appointment(c, id, transport) ==
    LET s == session[c]
        found == OwnAppointment(id, s.patient_nrc)
    IN  /\ IF ~s.patient_logged_in
           THEN /\ appointments' = appointments
                /\ last' = Response("cancel", c, "please_login", id, NULL, NoEmail, <<>>)
           ELSE IF found = {}
           THEN /\ appointments' = appointments
                /\ last' = Response("cancel", c, "not_found", id, s.patient_nrc,
                                    NoEmail, <<>>)
           ELSE IF ~Cancellable(CHOOSE a \in found : TRUE)
           THEN /\ appointments' = appointments
                /\ last' = Response("cancel", c, "only_pending", id, s.patient_nrc,
                                    NoEmail, <<>>)
           ELSE /\ appointments' = SetStatus(appointments, id, "Cancelled")
                /\ LET ev == <<"commit">> \o try_mail(transport)
                   IN  last' = Response("cancel", c, Finish("cancelled", ev), id,
                                        s.patient_nrc, NoEmail, ev)
        /\ UNCHANGED <<patients, nextId, session, today, inflight>>
        /\ UNCHANGED appVars


(***************************************************************************)
(* admin/routes.py                                                         *)
(***************************************************************************)
ApptIds == 1..MaxAppts

\* admin_required: the wrapped handler runs only under the session flag.
admin_required(c) == session[c].admin_authenticated

AdminRefused(op, c, id, nrc) ==
    Response(op, c, "admin_login_required", id, nrc, NoEmail, <<>>)

admin_login(c, pwd) ==
    /\ IF pwd = ADMIN_PASSWORD
       THEN /\ session' = [session EXCEPT ![c].admin_authenticated = TRUE]
            /\ last' = Response("admin_login", c, "logged_in", 0, NULL, NoEmail, <<>>)
       ELSE /\ session' = session
            /\ last' = Response("admin_login", c, "invalid_password", 0, NULL, NoEmail,
                                <<>>)
    /\ UNCHANGED <<patients, appointments, nextId, today, inflight>>
    /\ UNCHANGED appVars

\* session.pop("admin_authenticated", None)
admin_logout(c) ==
    /\ session' = [session EXCEPT ![c].admin_authenticated = FALSE]
    /\ last' = Response("admin_logout", c, "logged_out", 0, NULL, NoEmail, <<>>)
    /\ UNCHANGED <<patients, appointments, nextId, today, inflight>>
    /\ UNCHANGED appVars

\* count_unread(): the number of appointments whose is_read is 0, the badge of
\* the admin pages.
count_unread(appts) == Cardinality({a \in appts : a.is_read = 0})

MarkAllRead_FirstOnly(appts) ==
    {IF a.is_read = 0 /\ a.id = 1 THEN [a EXCEPT !.is_read = 1] ELSE a : a \in appts}

\* UPDATE appointments SET is_read=1 WHERE is_read=0
MarkAllRead(appts) ==
    {IF a.is_read = 0 THEN [a EXCEPT !.is_read = 1] ELSE a : a \in appts}

admin_dashboard(c) ==
    /\ IF ~admin_required(c)
       THEN /\ appointments' = appointments
            /\ last' = AdminRefused("admin_dashboard", c, 0, NULL)
       ELSE /\ appointments' = MarkAllRead(appointments)
            /\ last' = Response("admin_dashboard", c, "rendered", 0, NULL, NoEmail,
                                <<"commit">>)
    /\ UNCHANGED <<patients, nextId, session, today, inflight>>
    /\ UNCHANGED appVars

\* appt['email'] of "SELECT a.*, p.email FROM appointments a LEFT JOIN patients p":
\* sqlite3.Row gives the first column of that name, a.email when the table has
\* the contact columns and the joined p.email otherwise (NULL without a match).
JoinedEmail(a) ==
    IF AppointmentsHasContactColumns THEN a.email
    ELSE IF \E p \in patients : SqlEq(p.nrc, a.patient_nrc)
         THEN (CHOOSE p \in patients : SqlEq(p.nrc, a.patient_nrc)).email
         ELSE NoEmail

\* Lines 101-106: the optional notification of update_status.
StatusNotification(id, notify_email, custom_message, transport) ==
    LET found == {a \in appointments : a.id = id}
    IN  IF notify_email /\ custom_message # ""
        THEN IF found # {} /\ JoinedEmail(CHOOSE a \in found : TRUE) # NoEmail
             THEN send_email(JoinedEmail(CHOOSE a \in found : TRUE), transport)
             ELSE <<>>
        ELSE <<>>

MessageInputs == {"", "msg"}

update_status(c, id, new_status, notify_email, custom_message, transport) ==
    /\ IF ~admin_required(c)
       THEN /\ appointments' = appointments
            /\ last' = AdminRefused("update_status", c, id, NULL)
       ELSE IF new_status \notin ValidStatuses
       THEN /\ appointments' = appointments
            /\ last' = Response("update_status", c, "invalid_status", id, NULL, NoEmail,
                                <<>>)
       ELSE /\ appointments' = SetStatus(appointments, id, new_status)
            /\ LET ev == <<"commit">> \o
                         StatusNotification(id, notify_email, custom_message, transport)
               IN  last' = Response("update_status", c, Finish("status_updated", ev), id,
                                    NULL, NoEmail, ev)
    /\ UNCHANGED <<patients, nextId, session, today, inflight>>
    /\ UNCHANGED appVars

delete_appointment(c, id) ==
    /\ IF ~admin_required(c)
       THEN /\ appointments' = appointments
            /\ last' = AdminRefused("delete_appointment", c, id, NULL)
       ELSE /\ appointments' = {a \in appointments : a.id # id}
            /\ last' = Response("delete_appointment", c, "deleted", id, NULL, NoEmail,
                                <<"commit">>)
    /\ UNCHANGED <<patients, nextId, session, today, inflight>>
    /\ UNCHANGED appVars

DeletePatientAppointments_Kept(appts, nrc) == appts

\* DELETE FROM appointments WHERE patient_nrc=?; DELETE FROM patients WHERE nrc=?
DeletePatientAppointments(appts, nrc) == {a \in appts : ~SqlEq(a.patient_nrc, nrc)}
DeletePatientRow(pats, nrc) == {p \in pats : ~SqlEq(p.nrc, nrc)}

delete_patient(c, nrc) ==
    /\ IF ~admin_required(c)
       THEN /\ UNCHANGED <<appointments, patients>>
            /\ last' = AdminRefused("delete_patient", c, 0, nrc)
       ELSE /\ appointments' = DeletePatientAppointments(appointments, nrc)
            /\ patients' = DeletePatientRow(patients, nrc)
            /\ last' = Response("delete_patient", c, "deleted", 0, nrc, NoEmail,
                                <<"commit">>)
    /\ UNCHANGED <<nextId, session, today, inflight>>
    /\ UNCHANGED appVars

(***************************************************************************)
(* app.py: the standalone program over its own table (lines 93-106: no     *)
(* patient_nrc and no is_read column).                                     *)
(***************************************************************************)
AppApptIds == 1..MaxAppAppts

\* The row the INSERT of index adds: status by its column default 'Pending'.
AppNewAppointment(id, email, date) ==
    [id |-> id, email |-> email, appointment_date |-> date, status |-> "Pending"]

\* Line 155: not name or not phone or not appointment_date
AppFormIncomplete(name, phone, date) == name = "" \/ phone = "" \/ date = NoDate

TextInputs == {"", "text"}
AppEmailInputs == {EmailGood, NoEmail}
AppDateInputs == {1, NoDate}

app_index(name, phone, email, date) ==
    /\ app_nextId <= MaxAppAppts
    /\ IF AppFormIncomplete(name, phone, date)
       THEN /\ UNCHANGED <<app_appointments, app_nextId>>
            /\ last' = Response("app_index", NULL, "fill_name_phone_date", 0, NULL,
                                NoEmail, <<>>)
       ELSE /\ app_appointments' =
                    app_appointments \cup {AppNewAppointment(app_nextId, email, date)}
            /\ app_nextId' = app_nextId + 1
            /\ last' = Response("app_index", NULL, "booked", app_nextId, NULL, NoEmail,
                                <<"commit">>)
    /\ UNCHANGED app_session
    /\ UNCHANGED portalVars

\* DELETE FROM appointments WHERE id=?  (no session is looked at)
app_cancel_appointment(id) ==
    /\ app_appointments' = {a \in app_appointments : a.id # id}
    /\ last' = Response("app_cancel", NULL, "cancelled_and_removed", id, NULL, NoEmail,
                        <<"commit">>)
    /\ UNCHANGED <<app_nextId, app_session>>
    /\ UNCHANGED portalVars

\* POST: UPDATE appointments SET name, phone, service, date, time, message
app_update_appointment(id, date) ==
    /\ app_appointments' =
          {IF a.id = id THEN [a EXCEPT !.appointment_date = date] ELSE a :
              a \in app_appointments}
    /\ last' = Response("app_update", NULL, "updated", id, NULL, NoEmail, <<"commit">>)
    /\ UNCHANGED <<app_nextId, app_session>>
    /\ UNCHANGED portalVars

app_admin_login(pwd) ==
    /\ IF pwd = ADMIN_PASSWORD
       THEN /\ app_session' = TRUE
            /\ last' = Response("app_admin_login", NULL, "logged_in", 0, NULL, NoEmail,
                                <<>>)
       ELSE /\ app_session' = app_session
            /\ last' = Response("app_admin_login", NULL, "invalid_password", 0, NULL,
                                NoEmail, <<>>)
    /\ UNCHANGED <<app_appointments, app_nextId>>
    /\ UNCHANGED portalVars

app_admin_logout ==
    /\ app_session' = FALSE
    /\ last' = Response("app_admin_logout", NULL, "logged_out", 0, NULL, NoEmail, <<>>)
    /\ UNCHANGED <<app_appointments, app_nextId>>
    /\ UNCHANGED portalVars

\* request.form.get("status", "Pending")
FormStatus(status) == IF status = NULL THEN "Pending" ELSE status

AppSetStatus(appts, id, status) ==
    {IF a.id = id THEN [a EXCEPT !.status = status] ELSE a : a \in appts}

\* Lines 281-294: the mail of change_status, inside try/except.
AppStatusNotification(appts, id, transport) ==
    LET found == {a \in appts : a.id = id}
    IN  IF found # {} /\ (CHOOSE a \in found : TRUE).email # NoEmail
        THEN try_mail(transport)
        ELSE <<>>

app_change_status(id, status, transport) ==
    /\ IF ~app_session
       THEN /\ app_appointments' = app_appointments
            /\ last' = Response("app_change_status", NULL, "admin_login_required", id,
                                NULL, NoEmail, <<>>)
       ELSE /\ app_appointments' = AppSetStatus(app_appointments, id, FormStatus(status))
            /\ LET ev == <<"commit">> \o
                         AppStatusNotification(app_appointments, id, transport)
               IN  last' = Response("app_change_status", NULL,
                                    Finish("redirect_dashboard", ev), id, NULL, NoEmail, ev)
    /\ UNCHANGED <<app_nextId, app_session>>
    /\ UNCHANGED portalVars

NextApp ==
    \/ \E n \in TextInputs, ph \in TextInputs, e \in AppEmailInputs, d \in AppDateInputs :
          app_index(n, ph, e, d)
    \/ \E id \in AppApptIds : app_cancel_appointment(id)
    \/ \E id \in AppApptIds, d \in AppDateInputs : app_update_appointment(id, d)
    \/ \E pwd \in AdminPasswordInputs : app_admin_login(pwd)
    \/ app_admin_logout
    \/ \E id \in AppApptIds, st \in StatusInputs, t \in Transports :
          app_change_status(id, st, t)

SpecApp == Init /\ [][NextApp]_vars

(***************************************************************************)
(* The blueprint application, requests handled one at a time, with the     *)
(* accounts of three people: n1, n2 and one who registers without an nrc.  *)
(***************************************************************************)
PortalRegisterInputs ==
    {in \in RegisterInputs :
        /\ in.name # NULL /\ in.password = "p1" /\ in.confirm_password = "p1"
        /\ \/ in.nrc = "n1" /\ in.email = EmailGood
           \/ in.nrc = "n2" /\ in.email = EmailBad
           \/ in.nrc = NULL /\ in.email = EmailGood}

\* The inputs a handler reads: one that stops at its session check or at its
\* validation reads none of the later ones, and the transport matters only to a
\* request that attempts a mail.
TransportsIf(attempts) == IF attempts THEN Transports ELSE {"sent"}
StatusInputsOf(c) == IF admin_required(c) THEN StatusInputs ELSE {NULL}
NotifyInputsOf(c, st) ==
    IF admin_required(c) /\ st \in ValidStatuses THEN BOOLEAN ELSE {FALSE}
MessageInputsOf(c, st) ==
    IF admin_required(c) /\ st \in ValidStatuses THEN MessageInputs ELSE {""}

Next ==
    \/ \E in \in PortalRegisterInputs : register(in)
    \/ \E c \in Clients, e \in Emails, pw \in {"p1"} : login(c, e, pw)
    \/ \E c \in Clients : logout(c)
    \/ \E c \in Clients, d \in DateInputs :
          \E t \in TransportsIf(session[c].patient_logged_in /\ d >= today) :
              dashboard_post(c, d, t)
    \/ \E c \in Clients, id \in ApptIds :
          \E t \in TransportsIf(session[c].patient_logged_in) :
              cancel_appointment(c, id, t)
    \/ \E c \in Clients, pwd \in AdminPasswordInputs : admin_login(c, pwd)
    \/ \E c \in Clients : admin_logout(c)
    \/ \E c \in Clients : admin_dashboard(c)
    \/ \E c \in Clients, id \in ApptIds :
          \E st \in StatusInputsOf(c) :
          \E n \in NotifyInputsOf(c, st), m \in MessageInputsOf(c, st) :
          \E t \in TransportsIf(n /\ m # "") :
              update_status(c, id, st, n, m, t)
    \/ \E c \in Clients, id \in ApptIds : delete_appointment(c, id)
    \/ \E c \in Clients, nrc \in NRCs : delete_patient(c, nrc)

Spec == Init /\ [][Next]_vars

(***************************************************************************)
(* Registration and login with every input, requests handled one at a time.*)
(***************************************************************************)
NextAccounts ==
    \/ \E in \in RegisterInputs : register(in)
    \/ \E c \in Clients, e \in Emails \cup {NoEmail}, pw \in Passwords \cup {NULL} :
          login(c, e, pw)
    \/ \E c \in Clients : logout(c)
    \/ \E c \in Clients, pwd \in AdminPasswordInputs : admin_login(c, pwd)
    \/ \E c \in Clients, nrc \in NRCs : delete_patient(c, nrc)

SpecAccounts == Init /\ [][NextAccounts]_vars

(***************************************************************************)
(* Register requests served by concurrent threads: a second request may    *)
(* run its checks before the first one inserts.                            *)
(***************************************************************************)
RaceRegisterInputs ==
    {in \in RegisterInputs :
        in.name # NULL /\ in.password = "p1" /\ in.confirm_password = "p1"}

NextRace ==
    \/ \E r \in RegSlots, in \in RaceRegisterInputs : register_check(r, in)
    \/ \E r \in RegSlots : register_insert(r)
    \/ \E c \in Clients, pwd \in AdminPasswordInputs : admin_login(c, pwd)
    \/ \E c \in Clients, nrc \in NRCs : delete_patient(c, nrc)

SpecRace == Init /\ [][NextRace]_vars

(***************************************************************************)
(* Booking through both doors: the patient portal over Luax_DB.db and the  *)
(* public form of app.py over appointments.db, with the deletions that     *)
(* make room for an id to be reused if ids were not AUTOINCREMENT.          *)
(***************************************************************************)
BookingRegisterInputs == {in \in PortalRegisterInputs : in.nrc # "n2"}

NextBooking ==
    \/ \E in \in BookingRegisterInputs : register(in)
    \/ \E c \in Clients, pw \in {"p1"} : login(c, EmailGood, pw)
    \/ \E c \in Clients : logout(c)
    \/ \E c \in Clients, d \in DateInputs :
          \E t \in TransportsIf(session[c].patient_logged_in /\ d >= today) :
              dashboard_post(c, d, t)
    \/ \E c \in Clients, pwd \in {ADMIN_PASSWORD} : admin_login(c, pwd)
    \/ \E c \in Clients, id \in ApptIds : delete_appointment(c, id)
    \/ \E n \in TextInputs, ph \in TextInputs, e \in AppEmailInputs, d \in AppDateInputs :
          app_index(n, ph, e, d)
    \/ \E id \in AppApptIds : app_cancel_appointment(id)

SpecBooking == Init /\ [][NextBooking]_vars

(***************************************************************************)
(* patients/routes.py: dashboard (GET), the two lists it renders, with the *)
(* clock passing midnight between requests.                                *)
(***************************************************************************)
upcoming_appointments_NoDateFilter(nrc, now) ==
    {a \in appointments :
        SqlEq(a.patient_nrc, nrc) /\ a.status \in {"Pending", "Confirmed"}}

\* WHERE patient_nrc=? AND status IN ('Pending','Confirmed') AND appointment_date>=?
\* (the ORDER BY decides the order of the rows, not which rows there are)
upcoming_appointments(nrc, now) ==
    {a \in appointments :
        /\ SqlEq(a.patient_nrc, nrc)
        /\ a.status \in {"Pending", "Confirmed"}
        /\ a.appointment_date >= now}

\* WHERE patient_nrc=? AND (status='Completed' OR status='Cancelled' OR appointment_date<?)
past_appointments(nrc, now) ==
    {a \in appointments :
        /\ SqlEq(a.patient_nrc, nrc)
        /\ (a.status = "Completed" \/ a.status = "Cancelled" \/ a.appointment_date < now)}

\* render_template("patients/dashboard.html", upcoming_appointments=..., past_appointments=...)
DashboardPage(c, nrc, now) ==
    Response("dashboard", c, "rendered", 0, nrc, NoEmail, <<>>) @@
    [upcoming |-> upcoming_appointments(nrc, now),
     past |-> past_appointments(nrc, now)]

dashboard_get(c) ==
    LET s == session[c]
    IN  /\ IF ~s.patient_logged_in
           THEN last' = Response("dashboard", c, "please_login", 0, NULL, NoEmail, <<>>)
           ELSE last' = DashboardPage(c, s.patient_nrc, today)
        /\ UNCHANGED <<patients, appointments, nextId, session, today, inflight>>
        /\ UNCHANGED appVars

\* datetime.utcnow() moves on to the next day.
Midnight ==
    /\ today < MaxDay
    /\ today' = today + 1
    /\ last' = Response("midnight", NULL, "none", 0, NULL, NoEmail, <<>>)
    /\ UNCHANGED <<patients, appointments, nextId, session, inflight>>
    /\ UNCHANGED appVars

InitListing ==
    /\ patients = {}
    /\ appointments = {}
    /\ nextId = 1
    /\ session = [c \in Clients |-> EmptySession]
    /\ today = 0
    /\ inflight = {}
    /\ app_appointments = {}
    /\ app_nextId = 1
    /\ app_session = FALSE
    /\ last = Response("none", NULL, "none", 0, NULL, NoEmail, <<>>)

NextListing ==
    \/ \E in \in PortalRegisterInputs : register(in)
    \/ \E c \in Clients, e \in Emails, pw \in {"p1"} : login(c, e, pw)
    \/ \E c \in Clients, d \in Days : dashboard_post(c, d, "sent")
    \/ \E c \in Clients, id \in ApptIds : cancel_appointment(c, id, "sent")
    \/ \E c \in Clients : dashboard_get(c)
    \/ \E c \in Clients, pwd \in {ADMIN_PASSWORD} : admin_login(c, pwd)
    \/ \E c \in Clients, id \in ApptIds, st \in ValidStatuses :
          update_status(c, id, st, FALSE, "", "sent")
    \/ Midnight

SpecListing == InitListing /\ [][NextListing]_vars

(***************************************************************************)
(* Properties.                                                             *)
(***************************************************************************)
InvalidStatusInputs == StatusInputs \ ValidStatuses
AppRow(appts, id) == {a \in appts : a.id = id}

\* C1: a status update that submits a value outside Pending, Confirmed,
\* Cancelled, Completed (a missing value included) fails and leaves every stored
\* status as it was, in update_status of the admin blueprint and in change_status
\* of app.py alike.
C1_InvalidStatusRejected ==
    [][ /\ \A c \in Clients, id \in ApptIds, st \in InvalidStatusInputs,
              n \in BOOLEAN, m \in MessageInputs, t \in Transports :
              (last'.op = "update_status" /\ update_status(c, id, st, n, m, t)) =>
                  /\ appointments' = appointments
                  /\ last'.outcome \in {"invalid_status", "admin_login_required"}
        /\ \A id \in AppApptIds, st \in InvalidStatusInputs, t \in Transports :
              (last'.op = "app_change_status" /\ app_change_status(id, st, t)) =>
                  app_appointments' = app_appointments
      ]_vars

\* C2: a patient's cancel of an own appointment succeeds exactly when the
\* appointment is Pending; it then becomes Cancelled and stays in the store; in
\* every other status the cancel fails and the row keeps its status.
C2_PatientCancelOnlyPending ==
    [][ /\ \A c \in Clients, id \in ApptIds, t \in Transports :
              cancel_appointment(c, id, t) =>
                  \A a \in appointments :
                      ( /\ a.id = id
                        /\ session[c].patient_logged_in
                        /\ a.patient_nrc # NULL
                        /\ a.patient_nrc = session[c].patient_nrc ) =>
                      IF a.status = "Pending"
                      THEN /\ last'.outcome = "cancelled"
                           /\ appointments' = (appointments \ {a})
                                  \cup {[a EXCEPT !.status = "Cancelled"]}
                      ELSE /\ last'.outcome = "only_pending"
                           /\ appointments' = appointments
        /\ \A id \in AppApptIds :
              app_cancel_appointment(id) =>
                  \A a \in app_appointments : a.id = id =>
                      IF a.status = "Pending"
                      THEN app_appointments' = (app_appointments \ {a})
                                  \cup {[a EXCEPT !.status = "Cancelled"]}
                      ELSE /\ app_appointments' = app_appointments
                           /\ last'.outcome # "cancelled_and_removed"
      ]_vars

\* An appointment with this id that belongs to the patient of client c's session.
Owns(c, id) ==
    /\ session[c].patient_logged_in
    /\ \E a \in appointments :
          a.id = id /\ a.patient_nrc # NULL /\ a.patient_nrc = session[c].patient_nrc

\* C3: a patient-cancel request changes nothing in the store unless the session
\* is a patient session and an appointment with the requested id has that
\* patient's nrc; without one it reports NotFound (and asks for a login when
\* there is no patient session).
C3_CancelOnlyOwn ==
    [][ (last'.op = "cancel" /\ ~Owns(last'.client, last'.id)) =>
            /\ appointments' = appointments
            /\ patients' = patients
            /\ last'.outcome =
                  IF session[last'.client].patient_logged_in
                  THEN "not_found" ELSE "please_login"
      ]_vars

\* C3's case: a logged-in patient was told NotFound for the id of an appointment
\* that exists: another patient's, or one that is not linked to anyone.
C3_Witness ==
    /\ last.op = "cancel" /\ last.outcome = "not_found"
    /\ \E a \in appointments : a.id = last.id /\ a.patient_nrc # last.nrc
    /\ \E a \in appointments : a.patient_nrc = NULL

\* Some appointment row has gone, a patient row has gone, or update_status has
\* changed a status.
AdminOnlyEffect ==
    \/ \E a \in appointments : \A b \in appointments' : b.id # a.id
    \/ \E p \in patients : p \notin patients'
    \/ last'.op = "update_status" /\ appointments' # appointments
    \/ \E a \in app_appointments : \A b \in app_appointments' : b.id # a.id
    \/ last'.op = "app_change_status" /\ app_appointments' # app_appointments

\* C4: appointment rows are deleted, statuses are set by a status update and
\* patient rows are deleted only by requests whose session carries the admin
\* flag.
C4_OnlyAdminDeletes ==
    [][ AdminOnlyEffect =>
            IF last'.op \in {"app_cancel", "app_update", "app_change_status", "app_index"}
            THEN app_session
            ELSE last'.client \in Clients /\ session[last'.client].admin_authenticated
      ]_vars


RegisterFlashErrors ==
    {"passwords_do_not_match", "nrc_already_registered", "email_already_registered"}

\* C5: a register request that names the nrc or the email of an existing
\* patient, or whose password and confirmation differ, fails with its flash
\* message and leaves table patients exactly as it was.
C5_DuplicateRegistrationFails ==
    [][ ( /\ last'.op = "register"
          /\ \/ \E p \in patients : last'.nrc # NULL /\ p.nrc = last'.nrc
             \/ \E p \in patients : last'.email # NoEmail /\ p.email = last'.email
             \/ ~last'.confirmed ) =>
        /\ patients' = patients
        /\ last'.outcome \in RegisterFlashErrors
      ]_vars

\* C5's case: a request with a new nrc and the email of an existing patient
\* was turned away.
C5_Witness ==
    /\ last.op = "register" /\ last.outcome = "email_already_registered"
    /\ \E p \in patients : p.email = last.email /\ p.nrc # last.nrc

\* C6: no two patient rows have the same nrc and no two have the same email,
\* also when register requests interleave.  (A row registered without an nrc
\* holds NULL, which is no nrc: SQL's NULL equals nothing.)
C6_PatientKeysUnique ==
    \A p \in patients : \A q \in patients :
        p # q => /\ (p.nrc = q.nrc => p.nrc = NULL)
                 /\ p.email # q.email

\* C6's case: a request that had passed both existence checks lost the race:
\* its INSERT met the row another request inserted in between.
C6_Witness ==
    /\ last.op = "register" /\ last.outcome = "exception"
    /\ \E p \in patients : p.nrc = last.nrc /\ p.nrc # NULL /\ p.email = last.email

\* C7: after delete_patient(nrc) by an admin the patient row is gone and no
\* appointment has that patient_nrc; every other patient row and every
\* appointment of another patient or of nobody is as it was.
C7_DeletePatientCascades ==
    [][ (last'.op = "delete_patient" /\ last'.outcome = "deleted") =>
            /\ \A p \in patients' : p.nrc # last'.nrc
            /\ \A a \in appointments' : a.patient_nrc # last'.nrc
            /\ patients' = {p \in patients : p.nrc # last'.nrc}
            /\ appointments' = {a \in appointments : a.patient_nrc # last'.nrc}
      ]_vars

\* C7's case: a patient was deleted while appointments of another patient and
\* of nobody were in the store, and those are still there.
C7_Witness ==
    /\ last.op = "delete_patient" /\ last.outcome = "deleted"
    /\ \E a \in appointments : a.patient_nrc \in NRCs
    /\ \E a \in appointments : a.patient_nrc = NULL
    /\ patients # {}

\* C8: the unread count is the number of appointments with is_read = 0; right
\* after an authenticated view of the admin dashboard every appointment has
\* is_read = 1 and the count is zero, the view changed no other field, no row
\* came or went, and every booking raises the count by exactly one.
C8_UnreadCount ==
    [][ /\ (last'.op = "admin_dashboard" /\ last'.outcome = "rendered") =>
              /\ count_unread(appointments') = 0
              /\ \A a \in appointments' : a.is_read = 1
              /\ appointments' = {[a EXCEPT !.is_read = 1] : a \in appointments}
              /\ Cardinality(appointments') = Cardinality(appointments)
              /\ patients' = patients
        /\ (last'.op = "book" /\ last'.outcome = "booked") =>
              count_unread(appointments') = count_unread(appointments) + 1
      ]_vars

\* A booking made after a view: one appointment read, the new one unread.
C8_Witness ==
    /\ last.op = "book" /\ last.outcome = "booked"
    /\ count_unread(appointments) = 1
    /\ \E a \in appointments : a.is_read = 1

PortalBooked(a) ==
    /\ a.id = nextId /\ nextId' = nextId + 1
    /\ \A b \in appointments : b.id < a.id
    /\ a.status = "Pending" /\ a.is_read = 0
    /\ session[last'.client].patient_logged_in
    /\ a.patient_nrc = session[last'.client].patient_nrc
    /\ a.appointment_date >= today

PublicBooked(a) ==
    /\ a.id = app_nextId /\ app_nextId' = app_nextId + 1
    /\ \A b \in app_appointments : b.id < a.id
    /\ a.status = "Pending"
    /\ "patient_nrc" \notin DOMAIN a
    /\ "is_read" \notin DOMAIN a

MailEvents == {"mail_sent", "mail_failed_logged", "mail_raised"}

StoreChangeCommitted ==
    CASE last'.op = "book" ->
            /\ last'.outcome = "booked"
            /\ \E a \in appointments' \ appointments : a.id = last'.id
      [] last'.op = "cancel" ->
            /\ last'.outcome = "cancelled"
            /\ \E a \in appointments' : a.id = last'.id /\ a.status = "Cancelled"
            /\ appointments' # appointments
      [] OTHER ->
            /\ last'.outcome = "status_updated"
            /\ \E st \in ValidStatuses :
                  appointments' = SetStatus(appointments, last'.id, st)

\* C10: a booking, cancellation or status update that got as far as its write
\* ends with its success outcome and the write committed, whether the mail was
\* sent, the transport raised or the recipient was not a valid address (then
\* no mail is attempted); a mail is attempted only after the commit.
C10_MailFailureSwallowed ==
    [][ last'.op \in {"book", "cancel", "update_status"} =>
          LET ev == last'.ev
          IN  /\ \A i \in 1..Len(ev) :
                    ev[i] \in MailEvents => \E j \in 1..(i - 1) : ev[j] = "commit"
              /\ (\E i \in 1..Len(ev) : ev[i] = "commit") => StoreChangeCommitted
              /\ (last'.op = "update_status" /\
                    \E a \in appointments : a.id = last'.id /\ ~is_valid_email(a.email))
                    => \A i \in 1..Len(ev) : ev[i] \notin MailEvents
      ]_vars

\* A status update whose mail failed: the status is stored, the request succeeded.
C10_Witness ==
    /\ last.op = "update_status" /\ last.outcome = "status_updated"
    /\ last.ev = <<"commit", "mail_failed_logged">>
    /\ \E a \in appointments : a.id = last.id /\ a.status = "Confirmed"

\* A status update for an appointment whose address is not valid: no mail.
C10_WitnessInvalidRecipient ==
    /\ last.op = "update_status" /\ last.outcome = "status_updated"
    /\ last.ev = <<"commit">>
    /\ \E a \in appointments : a.id = last.id /\ a.email = EmailBad

MailAttempts(ev) ==
    Cardinality({i \in 1..Len(ev) : ev[i] \in MailEvents})

\* C11: a successful admin status update of an appointment whose stored
\* address is a valid one attempts exactly one mail to the patient, whether or
\* not the notify flag and a custom message came with the request (the custom
\* message with them, a default text without); a rejected update attempts none.
C11_StatusUpdateNotifiesOnce ==
    [][ last'.op = "update_status" =>
          IF last'.outcome = "status_updated"
          THEN (\E a \in appointments :
                    a.id = last'.id /\ is_valid_email(JoinedEmail(a)))
                  => MailAttempts(last'.ev) = 1
          ELSE MailAttempts(last'.ev) = 0
      ]_vars

\* C12: an update_status request of the admin with one of the four statuses
\* for an id that no appointment has ends as not found, not as a success, and
\* no row is created or changed.
C12_UpdateStatusUnknownId ==
    [][ ( /\ last'.op = "update_status"
          /\ session[last'.client].admin_authenticated
          /\ last'.outcome # "invalid_status"
          /\ ~ \E a \in appointments : a.id = last'.id )
          => /\ last'.outcome = "not_found"
             /\ appointments' = appointments
      ]_vars

StatusInDomain ==
    /\ \A a \in appointments : a.status \in ValidStatuses
    /\ \A a \in app_appointments : a.status \in ValidStatuses

NewRowsPending ==
    /\ \A a \in appointments' :
          (~ \E b \in appointments : b.id = a.id) => a.status = "Pending"
    /\ \A a \in app_appointments' :
          (~ \E b \in app_appointments : b.id = a.id) => a.status = "Pending"

\* C13: in every reachable state the stored status of every appointment is one
\* of Pending, Confirmed, Cancelled, Completed, and a row that enters the store
\* enters it as Pending.
C13_StatusDomain == [] StatusInDomain /\ [][NewRowsPending]_vars

FlashErrors ==
    RegisterFlashErrors \cup
    {"please_login", "date_in_past", "email_not_found", "incorrect_password",
     "not_found", "only_pending", "admin_login_required", "invalid_status",
     "invalid_password", "fill_name_phone_date"}

\* C14: no request ends with an exception nobody handled, and a request that
\* ends with an error flash and a redirect has created no row.
C14_ErrorsFlashAndRedirect ==
    [][ /\ last'.outcome # "exception"
        /\ last'.outcome \in FlashErrors =>
              /\ Cardinality(patients') <= Cardinality(patients)
              /\ \A a \in appointments' : \E b \in appointments : b.id = a.id
              /\ \A a \in app_appointments' : \E b \in app_appointments : b.id = a.id
      ]_vars

\* C15: for every patient in the table (registered and not deleted since), a
\* login with the patient's email and the password given at registration
\* succeeds and puts that patient's nrc and email into the session; a login
\* with an email no patient has, or with another password, does not succeed
\* and leaves the session as it was.
C15_RegisterThenLogin ==
    [][ \A c \in Clients, e \in Emails \cup {NoEmail}, pw \in Passwords \cup {NULL} :
          (last'.op = "login" /\ login(c, e, pw)) =>
             IF \E p \in patients :
                   p.email = e /\ p.password = generate_password_hash(pw)
             THEN /\ last'.outcome = "welcome"
                  /\ session'[c].patient_logged_in
                  /\ \E p \in patients :
                        /\ p.email = e
                        /\ session'[c].patient_nrc = p.nrc
                        /\ session'[c].patient_email = p.email
             ELSE /\ last'.outcome # "welcome"
                  /\ session' = session
      ]_vars

\* The second of two registered patients has logged in and holds their own nrc.
C15_Witness ==
    /\ last.op = "login" /\ last.outcome = "welcome"
    /\ Cardinality(patients) >= 2
    /\ \E p \in patients :
          /\ p.email = last.email /\ p.nrc = "n2"
          /\ session[last.client].patient_nrc = "n2"

LinkedTo(a, nrc) == a.patient_nrc # NULL /\ a.patient_nrc = nrc

\* C16: on a view of the patient dashboard every appointment linked to the
\* nrc of the session is in exactly one of the two lists, upcoming (Pending or
\* Confirmed, dated today or later) or past (Completed or Cancelled, or dated
\* before today), and neither list holds an appointment of anybody else.
C16_DashboardPartition ==
    [][ (last'.op = "dashboard" /\ last'.outcome = "rendered") =>
          LET nrc == session[last'.client].patient_nrc
              up == last'.upcoming
              past == last'.past
          IN  /\ \A a \in appointments :
                    LinkedTo(a, nrc) =>
                       /\ (a \in up) # (a \in past)
                       /\ a \in up <=> (a.status \in {"Pending", "Confirmed"}
                                          /\ a.appointment_date >= today)
                       /\ a \in past <=> (a.status \in {"Completed", "Cancelled"}
                                            \/ a.appointment_date < today)
              /\ \A a \in up \cup past : a \in appointments /\ LinkedTo(a, nrc)
      ]_vars

\* A view that shows a Pending appointment of yesterday as past, next to an
\* upcoming one.
C16_Witness ==
    /\ last.op = "dashboard" /\ last.outcome = "rendered"
    /\ \E a \in last.past : a.status = "Pending" /\ a.appointment_date < today
    /\ last.upcoming # {}

\* C17: in every reachable state every appointment with a patient_nrc refers
\* to a row of patients, also after an admin deleted a patient whose session
\* is still open and books again.
C17_ReferentialIntegrity ==
    \A a \in appointments :
        a.patient_nrc # NULL => \E p \in patients : p.nrc = a.patient_nrc

====
